---- MODULE Spec2Model ----
(***************************************************************************)
(* Model of appdmg-rs, src/lib.rs: the build pipeline                      *)
(*   staging -> hdiutil create -> attach -> layout (.DS_Store) ->          *)
(*   volume icon -> detach -> convert -> cleanup.                          *)
(* Every external process and filesystem call is an environment choice     *)
(* (it succeeds or it fails); the model follows the control flow of        *)
(* build() for each outcome, `?` and `return Err` included.                *)
(***************************************************************************)
EXTENDS Naturals, Integers, Sequences, FiniteSets, TLC

VARIABLES
    config,      \* the DmgConfig handed to build (immutable)
    prior,       \* history: Some(what was at the staging path and at the
                 \* temporary image path when build was called), until
                 \* hdiutil create has been called; None after that
    attachOut,   \* None, or Some(out_str): stdout of hdiutil attach, from the
                 \* attach call until build moves on from line 95 (it is not
                 \* read after that)
    pc,          \* position of build in its body
    i,           \* index of the item the copy loop is at (1-based)
    result,      \* "none" while running, then "ok" or "err"
    trace,       \* the external commands run so far (and the two calls into
                 \* the mount-point parser and write_ds_store), in order
    fsErr,       \* None, or Some(op): the tokio::fs call whose error ended build
    tempDir,     \* state of the staging directory
    tempDmg,     \* whether the temporary writable image exists
    output,      \* final_dmg_path: "untouched" (build has not looked at it),
                 \* "absent" (nothing was there at line 141), "removed" (the
                 \* pre-existing file was deleted), "partial" (left by a failed
                 \* convert), "new" (the final image)
    mount,       \* mount_point found by build (<<>> = none yet)
    mounted,     \* whether the image is attached
    volBg,       \* whether <mount>/.background/background.png exists
    written,     \* None, or Some(entries) handed to write_ds_store
    status,      \* exit status of hdiutil convert ("none" before it ran)
    absorbed     \* kinds of ignored failures that occurred: "link" (symlink),
                 \* "alias", "entry" (bwsp / icvp construction), "decoration"
                 \* (hidden flags, volume icon copy and flags), "sync"

vars == <<config, prior, attachOut, pc, i, result, trace, fsErr, tempDir, tempDmg, output, mount,
          mounted, volBg, written, status, absorbed>>

----------------------------------------------------------------------------
(* Bounds and input sets *)

MaxItems == 2

None == <<>>
Some(v) == <<v>>

\* Outcome of an external call: "ok" (exit status 0, or Ok(..)), "nonzero" (the
\* process ran and exited non-zero), "err" (io::Error: the call itself failed),
\* "ignored" (the code discards the outcome: `let _ = ...`).
Log(op, st) == [op |-> op, st |-> st]

\* Paths are sequences of components; "/" is the root, "." and ".." as in Rust.
\* DmgContent values the model draws config.contents from.
Contents ==
    { [x |-> 100, y |-> 100, type_ |-> "file",
       path |-> <<"/", "src", "App">>, name |-> Some("License")],
      [x |-> 300, y |-> 100, type_ |-> "link",
       path |-> <<"/", "Applications">>, name |-> None],
      [x |-> 200, y |-> 50, type_ |-> "file",
       path |-> <<"src", "license">>, name |-> None],
      [x |-> 60, y |-> 70, type_ |-> "dir",
       path |-> <<"src", "..">>, name |-> None],
      [x |-> 80, y |-> 90, type_ |-> "file",
       path |-> <<"src", "App", ".">>, name |-> Some("")] }

WindowSizes == { [width |-> 400, height |-> 300] }
IconSizes == { 96 }

RECURSIVE SeqsUpTo(_, _)
SeqsUpTo(S, n) ==
    IF n = 0 THEN { <<>> }
    ELSE LET shorter == SeqsUpTo(S, n - 1)
         IN  shorter \cup { Append(s, e) : s \in { t \in shorter : Len(t) = n - 1 }, e \in S }

Configs ==
    [ contents : SeqsUpTo(Contents, MaxItems),
      window : [ size : WindowSizes ],
      icon_size : IconSizes ]

----------------------------------------------------------------------------
(* Pure helpers *)

\* Path::components: interior and trailing "." components are dropped.
components(path) ==
    IF path = <<>> THEN <<>>
    ELSE <<Head(path)>> \o SelectSeq(Tail(path), LAMBDA c : c # ".")

\* Path::file_name: the last component when it is a normal one.
file_name(path) ==
    LET cs == components(path)
    IN  IF cs = <<>> THEN None
        ELSE IF cs[Len(cs)] \in {"/", ".", ".."} THEN None
        ELSE Some(cs[Len(cs)])

\* Option::or_else(..).unwrap_or("file") of line 66.
item_name(item) ==
    IF item.name # None THEN item.name[1]
    ELSE IF file_name(item.path) # None THEN file_name(item.path)[1]
    ELSE "file"

\* The same expression, as repeated in the layout loop (line 116).
layout_item_name(item) ==
    IF item.name # None THEN item.name[1]
    ELSE IF file_name(item.path) # None THEN file_name(item.path)[1]
    ELSE "file"

\* Attach output: a sequence of lines, a line a sequence of tab-separated
\* fields, a field a sequence of tokens (" " is whitespace, "/Volumes/" the
\* mount prefix, anything else ordinary text).
RECURSIVE trim_start(_)
trim_start(f) ==
    IF f # <<>> /\ Head(f) = " " THEN trim_start(Tail(f)) ELSE f

RECURSIVE trim_end(_)
trim_end(f) ==
    IF f # <<>> /\ f[Len(f)] = " " THEN trim_end(SubSeq(f, 1, Len(f) - 1)) ELSE f

trim(f) == trim_end(trim_start(f))

starts_with(f, prefix) == f # <<>> /\ Head(f) = prefix

\* Mutant of mount_point: the last field is taken as it is, without trim.
RECURSIVE mount_point_untrimmed(_)
mount_point_untrimmed(out) ==
    IF out = <<>> THEN None
    ELSE LET l == Head(out)
             s == l[Len(l)]
         IN  IF starts_with(s, "/Volumes/") THEN Some(s)
             ELSE mount_point_untrimmed(Tail(out))

\* lines().find_map(|l| l.split('\t').last().map(trim).filter(starts_with))
RECURSIVE mount_point(_)
mount_point(out) ==
    IF out = <<>> THEN None
    ELSE LET l == Head(out)
             s == trim(l[Len(l)])
         IN  IF starts_with(s, "/Volumes/") THEN Some(s)
             ELSE mount_point(Tail(out))

AttachOutputs ==
    { <<>>,
      << << <<"/dev/disk2">>, <<"GUID_partition_scheme">>, <<>> >>,
         << <<"/dev/disk2s1">>, <<"Apple_HFS">>, <<"/Volumes/", "App">> >> >>,
      << << <<"/Volumes/", "App">>, <<"Apple_HFS">> >> >>,
      << << <<"/dev/disk2s1">>, <<" ", "/Volumes/", "App", " ">> >> >>,
      << << <<"/dev/disk2s1">>, <<"/Volumes/", "App">> >>,
         << <<"/dev/disk3s1">>, <<"/Volumes/", "B">> >> >>,
      << << <<"/dev/disk2s1">>, <<"mnt", "/Volumes/">> >> >> }

\* ds_store::Entry constructors (module ds_store).
new_iloc(name, x, y) == [kind |-> "Iloc", name |-> name, x |-> x, y |-> y]
new_bwsp(width, height) == [kind |-> "bwsp", width |-> width, height |-> height]
new_icvp(icon_size, alias) == [kind |-> "icvp", icon_size |-> icon_size, alias |-> alias]

\* Mutant of iloc_entries: the coordinates are passed as (y, x).
RECURSIVE iloc_entries_swapped(_)
iloc_entries_swapped(contents) ==
    IF contents = <<>> THEN <<>>
    ELSE LET item == Head(contents)
             name == layout_item_name(item)
         IN  IF name = "license" THEN iloc_entries_swapped(Tail(contents))
             ELSE <<new_iloc(name, item.y, item.x)>> \o iloc_entries_swapped(Tail(contents))

\* Mutant of iloc_entries: the reserved name is compared ignoring case.
RECURSIVE iloc_entries_caseless(_)
iloc_entries_caseless(contents) ==
    IF contents = <<>> THEN <<>>
    ELSE LET item == Head(contents)
             name == layout_item_name(item)
         IN  IF name \in {"license", "License"} THEN iloc_entries_caseless(Tail(contents))
             ELSE <<new_iloc(name, item.x, item.y)>> \o iloc_entries_caseless(Tail(contents))

\* Mutant of iloc_entries: an item whose name a later item also resolves to
\* gets no entry (one entry per display name).
RECURSIVE iloc_entries_deduped(_)
iloc_entries_deduped(contents) ==
    IF contents = <<>> THEN <<>>
    ELSE LET item == Head(contents)
             name == layout_item_name(item)
             rest == Tail(contents)
         IN  IF name = "license" \/ \E k \in DOMAIN rest : layout_item_name(rest[k]) = name
             THEN iloc_entries_deduped(rest)
             ELSE <<new_iloc(name, item.x, item.y)>> \o iloc_entries_deduped(rest)

\* Mutant of iloc_entries: only items of kind "file" or "link" are placed.
RECURSIVE iloc_entries_materialized(_)
iloc_entries_materialized(contents) ==
    IF contents = <<>> THEN <<>>
    ELSE LET item == Head(contents)
             name == layout_item_name(item)
         IN  IF name = "license" \/ item.type_ \notin {"file", "link"}
             THEN iloc_entries_materialized(Tail(contents))
             ELSE <<new_iloc(name, item.x, item.y)>>
                    \o iloc_entries_materialized(Tail(contents))

\* The icon-placement loop of lines 114-120.
RECURSIVE iloc_entries(_)
iloc_entries(contents) ==
    IF contents = <<>> THEN <<>>
    ELSE LET item == Head(contents)
             name == layout_item_name(item)
         IN  IF name = "license" THEN iloc_entries(Tail(contents))
             ELSE <<new_iloc(name, item.x, item.y)>> \o iloc_entries(Tail(contents))

\* Lines 114-123: the vector handed to write_ds_store. bwspOk / icvpOk say
\* whether Entry::new_bwsp / Entry::new_icvp returned Ok.
layout_entries(cfg, alias, bwspOk, icvpOk) ==
    iloc_entries(cfg.contents)
      \o (IF bwspOk THEN <<new_bwsp(cfg.window.size.width, cfg.window.size.height)>>
                    ELSE <<>>)
      \o (IF icvpOk THEN <<new_icvp(cfg.icon_size, alias)>> ELSE <<>>)

----------------------------------------------------------------------------
(* State machine of build() *)

NoDir == [exists |-> FALSE, entries |-> {}]
Dir(es) == [exists |-> TRUE, entries |-> es]

Init ==
    /\ config \in Configs
    /\ attachOut = None
    /\ pc = "start"
    /\ i = 1
    /\ result = "none"
    /\ trace = <<>>
    /\ fsErr = None
    /\ tempDir \in {NoDir, Dir({}), Dir({"stale"})}
    /\ tempDmg \in BOOLEAN
    /\ output = "untouched"
    /\ mount = None
    /\ mounted = FALSE
    /\ volBg = FALSE
    /\ written = None
    /\ status = "none"
    /\ absorbed = {}
    /\ prior = Some([tempDir |-> tempDir, tempDmg |-> tempDmg])

\* `return Err(..)` / `?`: build ends with an error, nothing else is touched.
ReturnErr ==
    /\ pc' = "done"
    /\ result' = "err"

\* `?` on a tokio::fs call that failed.
FsErr(op) ==
    /\ fsErr' = Some(op)
    /\ ReturnErr

\* Mutant of PrepareTempDir: a staging directory that is there is kept as it
\* is (create_dir_all alone).
PrepareTempDir_keeping ==
    /\ pc = "start"
    /\ \E mkOk \in BOOLEAN :
         IF ~mkOk
         THEN /\ FsErr("create_dir_all(temp_dir)")
              /\ UNCHANGED tempDir
         ELSE /\ tempDir' = Dir(tempDir.entries)
              /\ pc' = "copy"
              /\ UNCHANGED <<result, fsErr>>
    /\ UNCHANGED <<config, prior, attachOut, i, trace, tempDmg, output, mount, mounted, volBg, written, status, absorbed>>

\* Lines 59-61: remove a pre-existing staging directory, create a fresh one.
PrepareTempDir ==
    /\ pc = "start"
    /\ \E rmOk, mkOk \in BOOLEAN :
         IF tempDir.exists /\ ~rmOk
         THEN /\ FsErr("remove_dir_all(temp_dir)")
              /\ UNCHANGED tempDir
         ELSE IF ~mkOk
         THEN /\ FsErr("create_dir_all(temp_dir)")
              /\ tempDir' = NoDir
         ELSE /\ tempDir' = Dir({})
              /\ pc' = "copy"
              /\ UNCHANGED <<result, fsErr>>
    /\ UNCHANGED <<config, prior, attachOut, i, trace, tempDmg, output, mount, mounted, volBg, written, status, absorbed>>

\* What `cp -R src dest` leaves in the staging directory: dest is
\* temp_dir.join(item_name), which is temp_dir itself for an empty name, and
\* then cp copies the source into it: what the source directory holds when
\* the path ends in ".", otherwise the source under its own final component.
staged_by_cp(item) ==
    IF item_name(item) # "" THEN {item_name(item)}
    ELSE IF item.path # <<>> /\ item.path[Len(item.path)] = "."
    THEN {"contents of " \o file_name(item.path)[1]}
    ELSE IF file_name(item.path) # None THEN {file_name(item.path)[1]}
    ELSE {}

\* Lines 69-71: a "file" item is copied with cp -R; a cp that cannot be run
\* or exits non-zero ends build with an error.
CopyFile(item) ==
    \E st \in {"ok", "nonzero", "err"} :
      /\ trace' = Append(trace, Log("cp", st))
      /\ IF st = "ok"
         THEN /\ tempDir' = Dir(tempDir.entries \cup staged_by_cp(item))
              /\ i' = i + 1
              /\ UNCHANGED <<pc, result>>
         ELSE /\ ReturnErr
              /\ UNCHANGED <<tempDir, i>>
      /\ UNCHANGED absorbed

\* Mutant of CopyLink: a failed symlink is propagated with `?`.
CopyLink_propagating(item) ==
    \E ok \in BOOLEAN :
      /\ ok => (item_name(item) # "" /\ item_name(item) \notin tempDir.entries)
      /\ absorbed' = IF ok THEN absorbed ELSE absorbed \cup {"link"}
      /\ IF ok
         THEN /\ tempDir' = Dir(tempDir.entries \cup {item_name(item)})
              /\ i' = i + 1
              /\ UNCHANGED <<pc, result>>
         ELSE /\ ReturnErr
              /\ UNCHANGED <<tempDir, i>>
      /\ UNCHANGED trace

\* Lines 72-74: a "link" item is symlinked and the outcome is discarded.
\* symlink fails when the destination already exists.
CopyLink(item) ==
    \E ok \in BOOLEAN :
      /\ ok => (item_name(item) # "" /\ item_name(item) \notin tempDir.entries)
      /\ tempDir' = IF ok THEN Dir(tempDir.entries \cup {item_name(item)}) ELSE tempDir
      /\ absorbed' = IF ok THEN absorbed ELSE absorbed \cup {"link"}
      /\ i' = i + 1
      /\ UNCHANGED <<pc, result, trace>>

\* Lines 64-75: one iteration of the copy loop.
CopyContent ==
    /\ pc = "copy"
    /\ i <= Len(config.contents)
    /\ LET item == config.contents[i]
       IN  \/ item.type_ = "file" /\ CopyFile(item)
           \/ item.type_ = "link" /\ CopyLink(item)
           \/ /\ item.type_ \notin {"file", "link"}
              /\ i' = i + 1
              /\ UNCHANGED <<pc, result, trace, tempDir, absorbed>>
    /\ UNCHANGED <<config, prior, attachOut, fsErr, tempDmg, output, mount, mounted, volBg,
                   written, status>>

\* Lines 78-79: remove a temporary image left at temp_dmg_path.
RemoveTempDmg ==
    /\ pc = "copy"
    /\ i > Len(config.contents)
    /\ \E rmOk \in BOOLEAN :
         IF tempDmg /\ ~rmOk
         THEN /\ FsErr("remove_file(temp_dmg)")
              /\ UNCHANGED tempDmg
         ELSE /\ tempDmg' = FALSE
              /\ pc' = "create"
              /\ UNCHANGED <<result, fsErr>>
    /\ UNCHANGED <<config, prior, attachOut, i, trace, tempDir, output, mount, mounted, volBg,
                   written, status, absorbed>>

\* Mutant of Create: the exit status of hdiutil create is not checked.
Create_unchecked ==
    /\ pc = "create"
    /\ \E st \in {"ok", "nonzero", "err"}, partial \in BOOLEAN :
         /\ trace' = Append(trace, Log("hdiutil create", st))
         /\ tempDmg' = CASE st = "ok" -> TRUE
                          [] st = "nonzero" -> partial \/ tempDmg
                          [] OTHER -> tempDmg
         /\ IF st # "err"
            THEN pc' = "attach" /\ UNCHANGED result
            ELSE ReturnErr
    /\ prior' = None
    /\ UNCHANGED <<config, attachOut, i, fsErr, tempDir, output, mount, mounted, volBg,
                   written, status, absorbed>>

\* Lines 81-89: hdiutil create. A create that exits non-zero may leave a
\* partial image behind.
Create ==
    /\ pc = "create"
    /\ \E st \in {"ok", "nonzero", "err"}, partial \in BOOLEAN :
         /\ trace' = Append(trace, Log("hdiutil create", st))
         /\ tempDmg' = CASE st = "ok" -> TRUE
                          [] st = "nonzero" -> partial \/ tempDmg
                          [] OTHER -> tempDmg
         /\ IF st = "ok"
            THEN pc' = "attach" /\ UNCHANGED result
            ELSE ReturnErr
    /\ prior' = None
    /\ UNCHANGED <<config, attachOut, i, fsErr, tempDir, output, mount, mounted, volBg,
                   written, status, absorbed>>

\* Lines 92-95: hdiutil attach, then the mount point is parsed from stdout.
\* The exit status of attach is not looked at.
Attach ==
    /\ pc = "attach"
    /\ \/ /\ trace' = Append(trace, Log("hdiutil attach", "err"))
          /\ ReturnErr
          /\ UNCHANGED <<mount, mounted, attachOut>>
       \/ \E st \in {"ok", "nonzero"}, out \in AttachOutputs :
            LET mp == mount_point(out)
            IN  /\ mounted' = (st = "ok")
                /\ attachOut' = Some(out)
                /\ trace' = trace \o <<Log("hdiutil attach", st),
                                        Log("mount_point", IF mp = None THEN "err" ELSE "ok")>>
                /\ IF mp = None
                   THEN ReturnErr /\ UNCHANGED mount
                   ELSE /\ mount' = mp
                        /\ pc' = "background"
                        /\ UNCHANGED result
    /\ UNCHANGED <<config, prior, i, fsErr, tempDir, tempDmg, output, volBg,
                   written, status, absorbed>>

\* Lines 99-107: .background directory, background copy, hidden flags.
BackgroundSetup ==
    /\ pc = "background"
    /\ \E bgSrc, mkOk, cpOk, hideOk \in BOOLEAN :   \* bgSrc: bg_src.exists()
         IF ~mkOk
         THEN /\ FsErr("create_dir_all(bg_dir)")
              /\ UNCHANGED <<trace, volBg, absorbed>>
         ELSE IF bgSrc /\ ~cpOk
         THEN /\ FsErr("copy(background)")
              /\ UNCHANGED <<trace, volBg, absorbed>>
         ELSE /\ trace' = trace \o <<Log("chflags hidden .background", "ignored"),
                                      Log("chflags hidden .fseventsd", "ignored")>>
              /\ volBg' = bgSrc
              /\ absorbed' = IF hideOk THEN absorbed ELSE absorbed \cup {"decoration"}
              /\ pc' = "layout"
              /\ UNCHANGED <<result, fsErr>>
    /\ attachOut' = None                         \* out_str is not read again
    /\ UNCHANGED <<config, prior, i, tempDir, tempDmg, output, mount, mounted, written, status>>

\* macos_alias: AliasInfo::new(path) then encode(). It cannot succeed for a
\* file that is not there; otherwise either step may fail.
alias_outcomes(exists) == IF exists THEN {None, Some("alias")} ELSE {None}

\* Lines 110-125: alias, entries, write_ds_store.
Layout ==
    /\ pc = "layout"
    /\ \E alias \in alias_outcomes(volBg), bwspOk, icvpOk, wrOk \in BOOLEAN :
         LET entries == layout_entries(config, alias, bwspOk, icvpOk)
         IN  /\ written' = Some(entries)
             /\ trace' = Append(trace, Log("write_ds_store", IF wrOk THEN "ok" ELSE "err"))
             /\ absorbed' = absorbed
                    \cup (IF alias = None THEN {"alias"} ELSE {})
                    \cup (IF bwspOk /\ icvpOk THEN {} ELSE {"entry"})
             /\ IF wrOk
                THEN pc' = "icon" /\ UNCHANGED result
                ELSE ReturnErr
    /\ UNCHANGED <<config, prior, attachOut, i, fsErr, tempDir, tempDmg, output, mount, mounted,
                   volBg, status>>

\* Mutant of VolumeIcon: sync runs first, the volume icon is set up after it.
VolumeIcon_sync_first ==
    /\ pc = "icon"
    /\ \E iconExists, cpOk, restOk, syncOk \in BOOLEAN :
         /\ trace' = trace
                \o <<Log("sync", "ignored")>>
                \o (IF iconExists /\ cpOk
                    THEN <<Log("chflags hidden .VolumeIcon.icns", "ignored"),
                           Log("SetFile -a C", "ignored")>>
                    ELSE <<>>)
         /\ absorbed' = absorbed
                \cup (IF iconExists /\ ~(cpOk /\ restOk) THEN {"decoration"} ELSE {})
                \cup (IF syncOk THEN {} ELSE {"sync"})
    /\ pc' = "detach"
    /\ UNCHANGED <<config, prior, attachOut, i, result, fsErr, tempDir, tempDmg, output, mount,
                   mounted, volBg, written, status>>

\* Lines 128-136: custom volume icon, then sync.
VolumeIcon ==
    /\ pc = "icon"
    /\ \E iconExists, cpOk, restOk, syncOk \in BOOLEAN :
         /\ trace' = trace
                \o (IF iconExists /\ cpOk
                    THEN <<Log("chflags hidden .VolumeIcon.icns", "ignored"),
                           Log("SetFile -a C", "ignored")>>
                    ELSE <<>>)
                \o <<Log("sync", "ignored")>>
         /\ absorbed' = absorbed
                \cup (IF iconExists /\ ~(cpOk /\ restOk) THEN {"decoration"} ELSE {})
                \cup (IF syncOk THEN {} ELSE {"sync"})
    /\ pc' = "detach"
    /\ UNCHANGED <<config, prior, attachOut, i, result, fsErr, tempDir, tempDmg, output, mount,
                   mounted, volBg, written, status>>

\* Line 139: hdiutil detach; only a failure to run it is an error.
Detach ==
    /\ pc = "detach"
    /\ \E st \in {"ok", "nonzero", "err"} :
         /\ trace' = Append(trace, Log("hdiutil detach", st))
         /\ mounted' = IF st = "ok" THEN FALSE ELSE mounted
         /\ IF st = "err"
            THEN ReturnErr
            ELSE pc' = "remove_old" /\ UNCHANGED result
    /\ UNCHANGED <<config, prior, attachOut, i, fsErr, tempDir, tempDmg, output, mount, volBg, written, status, absorbed>>

\* Mutant of RemoveOld: the file at the output path is left where it is.
RemoveOld_kept ==
    /\ pc = "remove_old"
    /\ pc' = "convert"
    /\ UNCHANGED <<config, prior, attachOut, i, result, trace, fsErr, tempDir, tempDmg, output,
                   mount, mounted, volBg, written, status,
                   absorbed>>

\* Line 141: remove what is at the output path, if anything is.
RemoveOld ==
    /\ pc = "remove_old"
    /\ \E exists, rmOk \in BOOLEAN :            \* exists: final_dmg_path.exists()
         IF ~exists
         THEN /\ output' = "absent"
              /\ pc' = "convert"
              /\ UNCHANGED <<result, fsErr>>
         ELSE IF rmOk
         THEN /\ output' = "removed"
              /\ pc' = "convert"
              /\ UNCHANGED <<result, fsErr>>
         ELSE /\ FsErr("remove_file(final_dmg)")
              /\ UNCHANGED output
    /\ UNCHANGED <<config, prior, attachOut, i, trace, tempDir, tempDmg, mount, mounted, volBg,
                   written, status, absorbed>>

\* Line 142: hdiutil convert. A failed convert may leave a partial file.
Convert ==
    /\ pc = "convert"
    /\ \E st \in {"ok", "nonzero", "err"}, partial \in BOOLEAN :
         /\ trace' = Append(trace, Log("hdiutil convert", st))
         /\ output' = CASE st = "ok" -> "new"
                         [] st = "nonzero" /\ partial -> "partial"
                         [] OTHER -> output
         /\ IF st = "err"
            THEN ReturnErr /\ UNCHANGED status
            ELSE /\ status' = st
                 /\ pc' = "cleanup"
                 /\ UNCHANGED result
    /\ UNCHANGED <<config, prior, attachOut, i, fsErr, tempDir, tempDmg, mount, mounted, volBg, written, absorbed>>

\* Mutant of Cleanup: a removal that fails is propagated with `?`.
Cleanup_propagating ==
    /\ pc = "cleanup"
    /\ \E rmDirOk, rmDmgOk \in BOOLEAN :
         /\ tempDir' = IF rmDirOk THEN NoDir ELSE tempDir
         /\ tempDmg' = IF rmDirOk /\ rmDmgOk THEN FALSE ELSE tempDmg
         /\ result' = IF status = "ok" /\ rmDirOk /\ rmDmgOk THEN "ok" ELSE "err"
    /\ pc' = "done"
    /\ UNCHANGED <<config, prior, attachOut, i, trace, fsErr, output, mount, mounted, volBg, written, status, absorbed>>

\* Lines 144-148: best-effort removal of the staging directory and of the
\* temporary image, then the result of convert is returned.
Cleanup ==
    /\ pc = "cleanup"
    /\ \E rmDirOk, rmDmgOk \in BOOLEAN :
         /\ tempDir' = IF rmDirOk THEN NoDir ELSE tempDir
         /\ tempDmg' = IF rmDmgOk THEN FALSE ELSE tempDmg
    /\ pc' = "done"
    /\ result' = IF status = "ok" THEN "ok" ELSE "err"
    /\ UNCHANGED <<config, prior, attachOut, i, trace, fsErr, output, mount, mounted, volBg, written, status, absorbed>>

Next ==
    \/ PrepareTempDir
    \/ CopyContent
    \/ RemoveTempDmg
    \/ Create
    \/ Attach
    \/ BackgroundSetup
    \/ Layout
    \/ VolumeIcon
    \/ Detach
    \/ RemoveOld
    \/ Convert
    \/ Cleanup

Spec == Init /\ [][Next]_vars

----------------------------------------------------------------------------
(* Properties *)

Called(op) == \E k \in DOMAIN trace : trace[k].op = op
CalledWith(op, st) == \E k \in DOMAIN trace : trace[k] = Log(op, st)

\* C1: when build returns, the staging directory and the temporary writable
\* image no longer exist. Stated for the returns the claim lists (a stage from
\* the staging copy on failed, before the cleanup at lines 144-145 ran), so
\* that a removal that was attempted and failed is not what breaks it.
C1_RemovedOnEveryExit ==
    (pc = "done" /\ status = "none"
       /\ fsErr \notin {Some("remove_dir_all(temp_dir)"),
                        Some("create_dir_all(temp_dir)"),
                        Some("remove_file(temp_dmg)")})
    => (~tempDir.exists /\ ~tempDmg)

\* C2: whenever attach produced a mount point, a detach has been issued by the
\* time build returns.
C2_DetachBeforeReturn ==
    (pc = "done" /\ mount # None) => Called("hdiutil detach")

\* C3: a detach that exits non-zero blocks conversion: convert is never
\* invoked, what is at the output path is not touched, build returns an error.
C3_DetachFailureBlocksConvert ==
    CalledWith("hdiutil detach", "nonzero")
    => /\ ~Called("hdiutil convert")
       /\ output = "untouched"
       /\ pc = "done" => result = "err"

\* C4 (as claimed): whenever the pre-existing output file has been deleted,
\* convert has already completed with exit status 0; a build whose convert
\* fails leaves the pre-existing file in place.
C4_RemovedOnlyAfterConvert ==
    /\ output = "removed" => status = "ok"
    /\ status = "nonzero" => output = "absent"

\* C4 (amended): the pre-existing output file is deleted only after the detach
\* call has been made, and always before convert is invoked: convert never
\* runs with the pre-existing file still in place, so a build whose convert
\* fails has already deleted it.
C4_RemovedAfterDetachBeforeConvert ==
    /\ output = "removed" => Called("hdiutil detach")
    /\ Called("hdiutil convert") => output # "untouched"
    /\ output \in {"partial", "new"} => Called("hdiutil convert")

\* A pre-existing output file was deleted and convert then exited non-zero.
C4_Witness ==
    /\ pc = "done"
    /\ output = "removed"
    /\ CalledWith("hdiutil convert", "nonzero")

\* The failures C5 lists: a failed copy of a file item, hdiutil create exiting
\* non-zero, no mount point found, a failed metadata write, hdiutil convert
\* exiting non-zero.
ListedFatal(e) ==
    e \in {Log("cp", "nonzero"), Log("cp", "err"), Log("hdiutil create", "nonzero"),
           Log("mount_point", "err"), Log("write_ds_store", "err"),
           Log("hdiutil convert", "nonzero")}

\* C5: each listed fatal condition ends the pipeline there (nothing but the
\* cleanup of lines 144-145 runs after it), build returns an error, and for a
\* failure before conversion convert is never called and nothing is written
\* at the output path.
C5_FatalAborts ==
    \A k \in DOMAIN trace :
      ListedFatal(trace[k])
      => /\ k = Len(trace)
         /\ pc \in {"cleanup", "done"}
         /\ pc = "done" => result = "err"
         /\ trace[k].op # "hdiutil convert"
              => /\ pc = "done"
                 /\ ~Called("hdiutil convert")
                 /\ output = "untouched"

\* The metadata write failed after a successful attach: build returned an
\* error without calling detach or convert.
C5_Witness ==
    /\ pc = "done"
    /\ result = "err"
    /\ CalledWith("write_ds_store", "err")
    /\ CalledWith("hdiutil create", "ok")

\* A failure the code does not discard: a call that could not be made or
\* returned Err, no mount point, or a non-zero exit of cp, create or convert.
FatalFailure(e) ==
    \/ e.st = "err"
    \/ e.st = "nonzero" /\ e.op \in {"cp", "hdiutil create", "hdiutil convert"}

Failed == fsErr # None \/ \E k \in DOMAIN trace : FatalFailure(trace[k])

Pipeline == <<"hdiutil create", "hdiutil attach", "hdiutil detach", "hdiutil convert">>

HdiutilCalls ==
    LET calls == SelectSeq(trace, LAMBDA e : e.op \in {Pipeline[n] : n \in DOMAIN Pipeline})
    IN  [k \in DOMAIN calls |-> calls[k].op]

IsPrefix(s, t) == Len(s) <= Len(t) /\ SubSeq(t, 1, Len(s)) = s

\* C6: the result of build and its sequence of create, attach, detach and
\* convert calls are decided by the outcomes that are not discarded alone:
\* build returns Ok exactly when none of those failed, nothing runs after one
\* that failed (but the final cleanup), and a build without such a failure
\* makes the four calls in order, whatever happened to the symlinks, the
\* alias, the bounds / view-parameters entries and the volume decoration.
C6_AbsorbedFailuresChangeNothing ==
    LET failed == Failed
        calls == HdiutilCalls
    IN  /\ pc = "done" => (result = "ok" <=> ~failed)
        /\ failed => pc \in {"cleanup", "done"}
        /\ IsPrefix(calls, Pipeline)
        /\ (pc = "done" /\ ~failed) => calls = Pipeline

\* A symlink, the alias, an entry construction, a decoration step and sync
\* all failed, and build returned Ok after the four hdiutil calls.
C6_Witness ==
    /\ pc = "done"
    /\ result = "ok"
    /\ absorbed = {"link", "alias", "entry", "decoration", "sync"}
    /\ HdiutilCalls = Pipeline

Entries == written[1]
OfKind(kind) == SelectSeq(Entries, LAMBDA e : e.kind = kind)

\* C7: a background image that is missing, cannot be copied onto the volume
\* or cannot be resolved / encoded never makes build fail, and the entries
\* handed to write_ds_store then hold an icvp entry without alias blob.
C7_BackgroundNeverFatal ==
    /\ fsErr # Some("copy(background)")
    /\ (written # None /\ "alias" \in absorbed)
         => \E k \in DOMAIN Entries :
              Entries[k] = [kind |-> "icvp", icon_size |-> config.icon_size, alias |-> None]

NoReservedName ==
    \A k \in DOMAIN config.contents : layout_item_name(config.contents[k]) # "license"

\* The icon placement the declaration asks for, item by item.
PlacementOf(item) ==
    [kind |-> "Iloc", name |-> layout_item_name(item), x |-> item.x, y |-> item.y]

DeclaredBounds ==
    [kind |-> "bwsp", width |-> config.window.size.width,
     height |-> config.window.size.height]

\* C8 (as claimed): with N items none of which resolves to "license", the
\* entries handed to write_ds_store hold exactly N icon placements (item k at
\* its x, y), exactly one bwsp entry from the declared window size and exactly
\* one icvp entry from the declared icon size.
C8_ExactlyNPlusTwoEntries ==
    (written # None /\ NoReservedName)
    => LET icvp == OfKind("icvp")
       IN  /\ OfKind("Iloc") = [k \in DOMAIN config.contents |-> PlacementOf(config.contents[k])]
           /\ OfKind("bwsp") = <<DeclaredBounds>>
           /\ Len(icvp) = 1
           /\ icvp[1].icon_size = config.icon_size

\* C8 (amended): exactly N icon placements; at most one bwsp and at most one
\* icvp entry, built from the declared values, and exactly one of each when
\* neither Entry::new_bwsp nor Entry::new_icvp returned Err.
C8_NPlacementsAndBuiltEntries ==
    (written # None /\ NoReservedName)
    => LET iloc == OfKind("Iloc")
           bwsp == OfKind("bwsp")
           icvp == OfKind("icvp")
       IN  /\ iloc = [k \in DOMAIN config.contents |-> PlacementOf(config.contents[k])]
           /\ bwsp \in {<<>>, <<DeclaredBounds>>}
           /\ Len(icvp) <= 1
           /\ \A k \in DOMAIN icvp : icvp[k].icon_size = config.icon_size
           /\ "entry" \notin absorbed => (Len(bwsp) = 1 /\ Len(icvp) = 1)
           /\ Len(Entries) = Len(iloc) + Len(bwsp) + Len(icvp)

\* Two items, none reserved, both constructions succeeded, build returned Ok.
C8_Witness ==
    /\ pc = "done"
    /\ result = "ok"
    /\ NoReservedName
    /\ Len(config.contents) = 2
    /\ "entry" \notin absorbed
    /\ Len(Entries) = 4

\* C9 (as claimed): no icon placement is emitted for an item resolving to
\* "license"; every other item has its icon placement, and the bwsp and icvp
\* entries are produced.
C9_ReservedNameSkipped ==
    written # None
    => /\ \A k \in DOMAIN Entries : Entries[k].kind = "Iloc" => Entries[k].name # "license"
       /\ \A k \in DOMAIN config.contents :
            layout_item_name(config.contents[k]) # "license"
            => \E j \in DOMAIN Entries : Entries[j] = PlacementOf(config.contents[k])
       /\ OfKind("bwsp") # <<>>
       /\ OfKind("icvp") # <<>>

\* C9 (amended): as claimed, the bwsp and icvp entries being produced when
\* neither Entry::new_bwsp nor Entry::new_icvp returned Err.
C9_ReservedNameSkippedOthersKept ==
    written # None
    => /\ \A k \in DOMAIN Entries : Entries[k].kind = "Iloc" => Entries[k].name # "license"
       /\ \A k \in DOMAIN config.contents :
            layout_item_name(config.contents[k]) # "license"
            => \E j \in DOMAIN Entries : Entries[j] = PlacementOf(config.contents[k])
       /\ "entry" \notin absorbed => (OfKind("bwsp") # <<>> /\ OfKind("icvp") # <<>>)

\* An item resolving to "license" next to one resolving to "License": one icon
\* placement (for "License"), plus the bwsp and icvp entries.
C9_Witness ==
    /\ written # None
    /\ \E k \in DOMAIN config.contents : layout_item_name(config.contents[k]) = "license"
    /\ \E k \in DOMAIN config.contents : layout_item_name(config.contents[k]) = "License"
    /\ Len(OfKind("Iloc")) = 1
    /\ Len(Entries) = 3

\* C10: the display name of every item build has resolved is the override
\* when there is one, otherwise the final component of the source path, and
\* it is never empty.
C10_DisplayNameNeverEmpty ==
    \A k \in DOMAIN config.contents :
      (pc # "start" /\ k < i)
      => LET item == config.contents[k]
         IN  /\ item.name # None => item_name(item) = item.name[1]
             /\ (item.name = None /\ file_name(item.path) # None)
                  => item_name(item) = file_name(item.path)[1]
             /\ item_name(item) # ""
             /\ layout_item_name(item) = item_name(item)

\* Items of the declaration that do not resolve to the reserved name.
NonReserved ==
    { k \in DOMAIN config.contents : layout_item_name(config.contents[k]) # "license" }

\* Two items of the declaration resolve to the same, non-reserved name.
NameCollision ==
    \E j, k \in NonReserved :
      j # k /\ layout_item_name(config.contents[j]) = layout_item_name(config.contents[k])

\* C11: the entries handed to write_ds_store hold as many icon placements as
\* there are items not resolving to "license", whether or not two of them
\* resolve to the same name: nothing is deduplicated.
C11_OneEntryPerItem ==
    written # None => Len(OfKind("Iloc")) = Cardinality(NonReserved)

\* Two items with the same non-reserved name, and two icon placements of
\* that name among the entries handed to write_ds_store.
C11_Witness ==
    /\ written # None
    /\ NameCollision
    /\ \E j, k \in DOMAIN Entries :
         /\ j # k
         /\ Entries[j].kind = "Iloc" /\ Entries[k].kind = "Iloc"
         /\ Entries[j].name = Entries[k].name

\* The stages that show in the trace, in pipeline order.
Stages ==
    <<"hdiutil create", "hdiutil attach", "write_ds_store", "hdiutil detach",
      "hdiutil convert">>

\* C12: the stages run in the order create, attach, metadata write, detach,
\* convert, each at most once, and each only after its predecessor was
\* invoked earlier and completed successfully (exit status 0 / Ok); the
\* metadata write only with a mount point found.
C12_StrictSequence ==
    /\ \A j, k \in DOMAIN trace :
         (j # k /\ trace[j].op = trace[k].op) => trace[j].op = "cp"
    /\ \A k \in DOMAIN trace : \A n \in 2..Len(Stages) :
         trace[k].op = Stages[n]
         => \E j \in 1..(k - 1) : trace[j] = Log(Stages[n - 1], "ok")
    /\ Called("write_ds_store") => mount # None

last_field(line) == line[Len(line)]

Min(S) == CHOOSE n \in S : \A m \in S : n <= m

NoStageAfterAttach ==
    /\ ~Called("write_ds_store")
    /\ ~Called("hdiutil detach")
    /\ ~Called("hdiutil convert")

\* C13 (as claimed): the mount path is the final tab-separated field of the
\* first line of the attach output whose final field begins with "/Volumes/";
\* without such a line build returns an error and runs neither the layout
\* nor detach nor convert.
C13_MountIsFirstVolumesField ==
    /\ attachOut # None
         => LET out == attachOut[1]
                hits == { n \in DOMAIN out : starts_with(last_field(out[n]), "/Volumes/") }
            IN  IF hits = {}
                THEN pc = "done" /\ result = "err" /\ mount = None
                ELSE mount = Some(last_field(out[Min(hits)]))
    /\ CalledWith("mount_point", "err") => (result = "err" /\ NoStageAfterAttach)

\* C13 (amended): the final field is taken without its leading and trailing
\* whitespace, both for the test and as the mount path.
C13_MountIsFirstTrimmedVolumesField ==
    /\ attachOut # None
         => LET out == attachOut[1]
                hits == { n \in DOMAIN out :
                            starts_with(trim(last_field(out[n])), "/Volumes/") }
            IN  IF hits = {}
                THEN pc = "done" /\ result = "err" /\ mount = None
                ELSE /\ mount = Some(trim(last_field(out[Min(hits)])))
                     /\ pc = "background"
    /\ CalledWith("mount_point", "err") => (result = "err" /\ NoStageAfterAttach)

\* The mount line of the attach output has whitespace around its final
\* field, and build goes on with the path inside it.
C13_Witness ==
    /\ attachOut # None
    /\ pc = "background"
    /\ mount # None
    /\ \A n \in DOMAIN attachOut[1] : last_field(attachOut[1][n]) # mount[1]

\* C14: create, attach and convert each make one hdiutil call, and a non-zero
\* exit status of that call ends the pipeline (only the cleanup of lines
\* 144-145 may follow) with build returning an error, whatever the call
\* printed.
C14_NonZeroExitIsFatal ==
    \A op \in {"hdiutil create", "hdiutil attach", "hdiutil convert"} :
      /\ Cardinality({ k \in DOMAIN trace : trace[k].op = op }) <= 1
      /\ CalledWith(op, "nonzero")
           => /\ pc \in {"cleanup", "done"}
              /\ pc = "done" => result = "err"

\* C15: among the entries handed to write_ds_store no two icon placements
\* carry the same display name.
C15_DisplayNameAtMostOnce ==
    written # None
    => \A j, k \in DOMAIN Entries :
         (Entries[j].kind = "Iloc" /\ Entries[k].kind = "Iloc" /\ j # k)
         => Entries[j].name # Entries[k].name

\* The calls in the trace that write to the mounted volume.
VolumeWrite(e) ==
    e.op \in {"write_ds_store", "chflags hidden .background", "chflags hidden .fseventsd",
              "chflags hidden .VolumeIcon.icns", "SetFile -a C"}

\* C16: sync is issued once, after every write to the mounted volume, and it
\* is the call right before hdiutil detach; whether sync succeeded or not,
\* detach is what build does next.
C16_SyncBeforeDetach ==
    LET syncs == { k \in DOMAIN trace : trace[k].op = "sync" }
    IN  /\ Cardinality(syncs) <= 1
        /\ \A s \in syncs : \A k \in DOMAIN trace : VolumeWrite(trace[k]) => k < s
        /\ \A d \in DOMAIN trace :
             trace[d].op = "hdiutil detach" => (d - 1) \in syncs
        /\ pc = "detach" <=> (syncs # {} /\ ~Called("hdiutil detach"))

\* The volume icon was copied and flagged, sync failed, detach was called.
C16_Witness ==
    /\ Called("SetFile -a C")
    /\ "sync" \in absorbed
    /\ Called("hdiutil detach")

HideSupportDir(e) ==
    e.op \in {"chflags hidden .background", "chflags hidden .fseventsd"}

\* C17: the .background and .fseventsd folders are hidden only after
\* write_ds_store has completed, and before the volume icon is hidden and
\* the custom-icon flag is set.
C17_HideAfterMetadataWrite ==
    \A k \in DOMAIN trace :
      HideSupportDir(trace[k])
      => /\ \E j \in 1..(k - 1) : trace[j] = Log("write_ds_store", "ok")
         /\ \A j \in DOMAIN trace :
              trace[j].op \in {"chflags hidden .VolumeIcon.icns", "SetFile -a C"} => k < j

\* What the copy loop puts into the staging directory for an item.
MaterializedBy(item) ==
    CASE item.type_ = "file" -> staged_by_cp(item)
      [] item.type_ = "link" -> {item_name(item)}
      [] OTHER -> {}

\* C18: whatever was at the staging path and at the temporary image path
\* before, during the copy loop and when hdiutil create is about to be called
\* the staging directory exists and holds nothing but what the items copied
\* so far have put there (nothing before the first item), and create is
\* called with no file at the temporary image path.
C18_StagingStartsFresh ==
    /\ pc \in {"copy", "create"}
         => /\ tempDir.exists
            /\ tempDir.entries \subseteq
                 UNION { MaterializedBy(config.contents[k]) : k \in 1..(i - 1) }
    /\ pc = "create" => ~tempDmg

\* build was called with leftovers in the staging directory and a temporary
\* image in place; hdiutil create is about to be called on a staging
\* directory that holds what this build has copied and linked, with no
\* temporary image in place.
C18_Witness ==
    /\ pc = "create"
    /\ prior = Some([tempDir |-> Dir({"stale"}), tempDmg |-> TRUE])
    /\ Len(config.contents) = 2
    /\ Cardinality(tempDir.entries) = 2
    /\ ~tempDmg

\* The copy loop is at an item that is not a "file".
CopyStepNotAFile ==
    /\ pc = "copy"
    /\ i <= Len(config.contents)
    /\ config.contents[i].type_ # "file"

\* C19: the copy loop leaves the staging directory as it is and goes on
\* without an error for an item that is neither a "file" nor a "link", and
\* goes on without an error for a "link" whether the symlink was made or
\* not, a symlink that failed adding nothing to the staging directory; and
\* the entries handed to write_ds_store place every item that does not
\* resolve to "license", of whatever kind, materialized or not.
C19_PlacedWhetherMaterializedOrNot ==
    [][ /\ CopyStepNotAFile
             => /\ i' = i + 1
                /\ pc' = pc /\ result' = result /\ trace' = trace
                /\ \/ tempDir' = tempDir
                   \/ /\ config.contents[i].type_ = "link"
                      /\ absorbed' = absorbed
                      /\ tempDir' = Dir(tempDir.entries \cup {item_name(config.contents[i])})
        /\ (pc = "layout" /\ written' # None)
             => \A k \in NonReserved :
                  \E j \in DOMAIN written'[1] :
                    written'[1][j] = PlacementOf(config.contents[k])
      ]_vars

\* A "dir" item and a link whose symlink failed: nothing was materialized,
\* both items have their icon placement.
C19_Witness ==
    /\ written # None
    /\ \E j, k \in DOMAIN config.contents :
         /\ config.contents[j].type_ = "dir"
         /\ config.contents[k].type_ = "link"
    /\ "link" \in absorbed
    /\ tempDir.exists /\ tempDir.entries = {}
    /\ Len(OfKind("Iloc")) = 2

\* C20: once hdiutil convert has exited, with status 0 or not, build does
\* not return before the step that removes the staging directory and the
\* temporary image; that step makes no further call, removes each of the two
\* or leaves it (a removal that fails), and build then returns Ok exactly
\* when the exit status of convert was 0.
C20_CleanupPrecedesResult ==
    [][ /\ (pc = "convert" /\ status' # "none")
             => (pc' = "cleanup" /\ result' = "none")
        /\ pc = "cleanup"
             => /\ pc' = "done"
                /\ trace' = trace
                /\ tempDir' \in {NoDir, tempDir}
                /\ tempDmg' \in {FALSE, tempDmg}
                /\ result' = "ok" <=> CalledWith("hdiutil convert", "ok")
                /\ result' = "err" <=> CalledWith("hdiutil convert", "nonzero")
      ]_vars

\* Convert exited with status 0, neither the staging directory nor the
\* temporary image could be removed, and build returned Ok.
C20_Witness ==
    /\ pc = "done"
    /\ CalledWith("hdiutil convert", "ok")
    /\ tempDir.exists
    /\ tempDmg
    /\ result = "ok"

====
